---- MODULE Spec2Model ----
(***************************************************************************)
(* A model of mux/src/localpane.rs: LocalPane, the pane that binds a child *)
(* process, its pty master and a terminal emulator.                        *)
(*                                                                         *)
(*   Spec        the pane's operations (resize, handles, kill, is_dead,    *)
(*               drop) acting on the pty, the emulator and the child.      *)
(*   LiveSpec    Spec plus the fairness of a running destructor and of a   *)
(*               child that received the kill signal.                      *)
(*   SearchSpec  LocalPane::search over bounded screens and patterns.      *)
(***************************************************************************)
EXTENDS Integers, Sequences, FiniteSets, TLC

\* ------------------------------------------------------------------------
\* Bounds of the model
\* ------------------------------------------------------------------------

\* PtySize rows and columns range over 1..MaxDim.
MaxDim == 2

\* Pane::kill is called at most this many times before the pane is dropped.
MaxKillCalls == 2

\* ------------------------------------------------------------------------
\* State
\* ------------------------------------------------------------------------

VARIABLES
    ptySize,       \* geometry held by the pty master (kernel side)
    termSize,      \* geometry held by the terminal emulator
    rendererHeld,  \* a RefMut from renderer() is outstanding (terminal borrowed mutably)
    writerHeld,    \* a RefMut from writer() is outstanding (pty borrowed mutably)
    child,         \* "running" | "exited" (a zombie: not yet waited on) | "reaped"
    signalled,     \* the child received the kill signal and has not exited yet
    pc,            \* "live" | "drop_wait" (destructor between kill and wait) | "dropped"
    killCalls,     \* number of Pane::kill calls so far
    dropLog,       \* calls the destructor made on the child, in order, with their outcome
    lastOp,        \* the last pane operation, its argument and how it ended
    screen,        \* search: the emulator's screen lines
    pattern,       \* search: the Pattern [kind, text], with the text as given by the caller
    spc,           \* search: position in LocalPane::search
    row,           \* search: number of screen lines already scanned
    haystack,      \* search: the haystack String, as UTF-8 bytes
    coords,        \* search: the Vec<Coord>
    results,       \* search: the Vec<SearchResult>
    collects       \* search: number of calls of collect_matches so far

paneVars == <<ptySize, termSize, rendererHeld, writerHeld, child, signalled,
              pc, killCalls, dropLog, lastOp>>

searchVars == <<screen, pattern, spc, row, haystack, coords, results, collects>>

vars == <<ptySize, termSize, rendererHeld, writerHeld, child, signalled,
          pc, killCalls, dropLog, lastOp,
          screen, pattern, spc, row, haystack, coords, results, collects>>

\* ------------------------------------------------------------------------
\* The pane: geometry, handles, child process
\* ------------------------------------------------------------------------

\* PtySize values (pixel sizes follow rows/cols and are left out).
Sizes == [rows : 1..MaxDim, cols : 1..MaxDim]

NoSize == [rows |-> 0, cols |-> 0]

\* The size handed to LocalPane::new's terminal and pty.
InitialSize == [rows |-> 1, cols |-> 1]

\* A call record: the operation, its PtySize argument, how it ended, and
\* what the collaborators answered during the call ("-" where not asked):
\* poll is Child::try_wait's answer, emu the emulator's current directory,
\* leader the pty's process group leader, link the result of reading the
\* leader's cwd link, probed whether the working-directory probe ran.
Op(name, arg, res) ==
    [op |-> name, arg |-> arg, res |-> res,
     poll |-> "-", emu |-> "-", leader |-> "-", link |-> "-", probed |-> "-"]

\* LocalPane::new: nothing borrowed, the child just spawned.
PaneInit ==
    /\ ptySize = InitialSize
    /\ termSize = InitialSize
    /\ rendererHeld = FALSE
    /\ writerHeld = FALSE
    /\ child = "running"
    /\ signalled = FALSE
    /\ pc = "live"
    /\ killCalls = 0
    /\ dropLog = <<>>
    /\ lastOp = Op("new", NoSize, "ok")

\* No search is in progress.
SearchIdle ==
    /\ screen = <<>>
    /\ pattern = [kind |-> "cs", text |-> <<>>, given |-> <<>>]
    /\ spc = "idle"
    /\ row = 0
    /\ haystack = <<>>
    /\ coords = <<>>
    /\ results = <<>>
    /\ collects = 0

Init == PaneInit /\ SearchIdle

\* renderer(): terminal.borrow_mut(), the RefMut is returned to the caller.
\* A second mutable borrow panics (BorrowMutError).
Renderer ==
    /\ pc = "live"
    /\ IF rendererHeld
         THEN /\ lastOp' = Op("renderer", NoSize, "panic")
              /\ UNCHANGED rendererHeld
         ELSE /\ rendererHeld' = TRUE
              /\ lastOp' = Op("renderer", NoSize, "ok")
    /\ UNCHANGED <<ptySize, termSize, writerHeld, child, signalled, pc,
                   killCalls, dropLog>>
    /\ UNCHANGED searchVars

\* The caller drops the RefMut it got from renderer().
ReleaseRenderer ==
    /\ pc = "live"
    /\ rendererHeld
    /\ rendererHeld' = FALSE
    /\ lastOp' = Op("release_renderer", NoSize, "ok")
    /\ UNCHANGED <<ptySize, termSize, writerHeld, child, signalled, pc,
                   killCalls, dropLog>>
    /\ UNCHANGED searchVars

\* writer(): pty.borrow_mut(), the RefMut is returned to the caller.
Writer ==
    /\ pc = "live"
    /\ IF writerHeld
         THEN /\ lastOp' = Op("writer", NoSize, "panic")
              /\ UNCHANGED writerHeld
         ELSE /\ writerHeld' = TRUE
              /\ lastOp' = Op("writer", NoSize, "ok")
    /\ UNCHANGED <<ptySize, termSize, rendererHeld, child, signalled, pc,
                   killCalls, dropLog>>
    /\ UNCHANGED searchVars

\* The caller drops the RefMut it got from writer().
ReleaseWriter ==
    /\ pc = "live"
    /\ writerHeld
    /\ writerHeld' = FALSE
    /\ lastOp' = Op("release_writer", NoSize, "ok")
    /\ UNCHANGED <<ptySize, termSize, rendererHeld, child, signalled, pc,
                   killCalls, dropLog>>
    /\ UNCHANGED searchVars

\* A resize that commits the emulator before asking the pty.
ResizeEffectEmulatorFirst(size, ptyOk) ==
    IF rendererHeld \/ writerHeld
      THEN /\ lastOp' = Op("resize", size, "panic")
           /\ UNCHANGED <<ptySize, termSize>>
      ELSE /\ termSize' = size
           /\ IF ptyOk
                THEN /\ ptySize' = size
                     /\ lastOp' = Op("resize", size, "ok")
                ELSE /\ lastOp' = Op("resize", size, "err")
                     /\ UNCHANGED ptySize

\* A resize whose second phase is overtaken by another call: the emulator is
\* left with the geometry the pty had before this call.
ResizeEffectOvertaken(size, ptyOk) ==
    IF writerHeld
      THEN /\ lastOp' = Op("resize", size, "panic")
           /\ UNCHANGED <<ptySize, termSize>>
      ELSE IF ~ptyOk
        THEN /\ lastOp' = Op("resize", size, "err")
             /\ UNCHANGED <<ptySize, termSize>>
        ELSE /\ ptySize' = size
             /\ IF rendererHeld
                  THEN /\ lastOp' = Op("resize", size, "panic")
                       /\ UNCHANGED termSize
                  ELSE /\ termSize' = ptySize
                       /\ lastOp' = Op("resize", size, "ok")

\* resize(size), with ptyOk the answer of MasterPty::resize:
\*   self.pty.borrow_mut().resize(size)?;       panics if writer() is held
\*   self.terminal.borrow_mut().resize(..);     panics if renderer() is held
\* A rejected pty resize leaves the pty's geometry as it was.
ResizeEffect(size, ptyOk) ==
    IF writerHeld
      THEN /\ lastOp' = Op("resize", size, "panic")
           /\ UNCHANGED <<ptySize, termSize>>
      ELSE IF ~ptyOk
        THEN /\ lastOp' = Op("resize", size, "err")
             /\ UNCHANGED <<ptySize, termSize>>
        ELSE /\ ptySize' = size
             /\ IF rendererHeld
                  THEN /\ lastOp' = Op("resize", size, "panic")
                       /\ UNCHANGED termSize
                  ELSE /\ termSize' = size
                       /\ lastOp' = Op("resize", size, "ok")

Resize ==
    /\ pc = "live"
    /\ \E size \in Sizes, ptyOk \in BOOLEAN : ResizeEffect(size, ptyOk)
    /\ UNCHANGED <<rendererHeld, writerHeld, child, signalled, pc,
                   killCalls, dropLog>>
    /\ UNCHANGED searchVars

\* Child::kill as the OS answers it: the signal reaches a running child when
\* the call succeeds; the call may fail (the child is gone, or the OS refuses).
KillEffect(ok) ==
    signalled' = (signalled \/ (ok /\ child = "running"))

\* kill(): self.process.borrow_mut().kill().ok(); the failure is dropped.
Kill ==
    /\ pc = "live"
    /\ killCalls < MaxKillCalls
    /\ \E ok \in BOOLEAN : KillEffect(ok)
    /\ killCalls' = killCalls + 1
    /\ lastOp' = Op("kill", NoSize, "ok")
    /\ UNCHANGED <<ptySize, termSize, rendererHeld, writerHeld, child, pc, dropLog>>
    /\ UNCHANGED searchVars

\* A poll that forgets the exit status once the child has been collected.
TryWaitForgetful(pollOk) ==
    IF ~pollOk THEN "err"
    ELSE IF child = "exited" THEN "some" ELSE "none"

\* Child::try_wait: Ok(None) while the child runs, Ok(Some(status)) once it
\* has exited (which reaps it), or an error.
TryWait(pollOk) ==
    IF ~pollOk THEN "err"
    ELSE IF child = "running" THEN "none" ELSE "some"

\* An is_dead that takes a failed poll for a running child.
IsDeadResultErrAlive(r) == IF r = "some" THEN "true" ELSE "false"

\* is_dead(): `if let Ok(None) = .. { false } else { true }`.
IsDeadResult(r) == IF r = "none" THEN "false" ELSE "true"

\* is_dead(): self.process.borrow_mut().try_wait(), false exactly for Ok(None).
IsDead ==
    /\ pc = "live"
    /\ \E pollOk \in BOOLEAN :
         LET r == TryWait(pollOk) IN
         /\ lastOp' = [Op("is_dead", NoSize, IsDeadResult(r)) EXCEPT !.poll = r]
         /\ child' = IF r = "some" THEN "reaped" ELSE child
    /\ UNCHANGED <<ptySize, termSize, rendererHeld, writerHeld, signalled, pc,
                   killCalls, dropLog>>
    /\ UNCHANGED searchVars

\* The child process exits, on its own or because of the kill signal.
ChildExit ==
    /\ child = "running"
    /\ child' = "exited"
    /\ signalled' = FALSE
    /\ UNCHANGED <<ptySize, termSize, rendererHeld, writerHeld, pc, killCalls,
                   dropLog, lastOp>>
    /\ UNCHANGED searchVars

\* A destructor that skips its kill when Pane::kill was called before.
DropKillEffectSkipIfKilled(ok) ==
    /\ pc' = "drop_wait"
    /\ IF killCalls > 0
         THEN UNCHANGED <<signalled, dropLog>>
         ELSE /\ KillEffect(ok)
              /\ dropLog' = Append(dropLog, [call |-> "kill", ok |-> ok])

\* Drop for LocalPane, first statement: self.process.borrow_mut().kill().ok().
\* The pane can only be dropped once every RefMut borrowed from it is gone.
DropKillEffect(ok) ==
    /\ KillEffect(ok)
    /\ dropLog' = Append(dropLog, [call |-> "kill", ok |-> ok])
    /\ pc' = "drop_wait"

DropKill ==
    /\ pc = "live"
    /\ ~rendererHeld /\ ~writerHeld
    /\ \E ok \in BOOLEAN : DropKillEffect(ok)
    /\ lastOp' = Op("drop", NoSize, "running")
    /\ UNCHANGED <<ptySize, termSize, rendererHeld, writerHeld, child, killCalls>>
    /\ UNCHANGED searchVars

\* A destructor that polls (try_wait) instead of waiting: it does not block
\* on a running child and leaves it uncollected.
DropWaitEffectNoBlock(ok) ==
    /\ child' = IF child = "running" THEN child ELSE "reaped"
    /\ dropLog' = Append(dropLog, [call |-> "wait", ok |-> ok])
    /\ pc' = "dropped"

\* Drop for LocalPane, second statement: self.process.borrow_mut().wait().ok().
\* Child::wait blocks until the child has exited and then collects it (or
\* reports that nothing is left to collect); its result is dropped.
DropWaitEffect(ok) ==
    /\ child # "running"
    /\ child' = "reaped"
    /\ dropLog' = Append(dropLog, [call |-> "wait", ok |-> ok])
    /\ pc' = "dropped"

DropWait ==
    /\ pc = "drop_wait"
    /\ \E ok \in BOOLEAN : DropWaitEffect(ok)
    /\ lastOp' = Op("drop", NoSize, "ok")
    /\ UNCHANGED <<ptySize, termSize, rendererHeld, writerHeld, signalled, killCalls>>
    /\ UNCHANGED searchVars

\* The calls that borrow the emulator mutably for one statement
\* (self.terminal.borrow_mut().f(..)) and change nothing else of the pane.
TermMutOps ==
    {"set_clipboard", "advance_bytes", "mouse_event", "key_down", "send_paste",
     "get_title", "erase_scrollback", "focus_changed"}

\* The calls that borrow the emulator shared (self.terminal.borrow()).
TermReadOps == {"palette", "is_mouse_grabbed", "get_semantic_zones"}

\* The ones among them that hand back the emulator's Result.
FallibleTermOps == {"mouse_event", "key_down", "send_paste", "get_semantic_zones"}

\* A borrow that lets the call through while renderer() holds the emulator.
TermCallTolerant(held, emuOk) == IF emuOk THEN "ok" ELSE "err"

\* RefCell::borrow_mut / RefCell::borrow on the terminal cell, then the
\* emulator's method: the borrow panics while the RefMut of renderer() is
\* out; otherwise the call ends as the emulator answers.
TermCall(held, emuOk) ==
    IF held THEN "panic" ELSE IF emuOk THEN "ok" ELSE "err"

\* set_clipboard, advance_bytes, mouse_event, key_down, send_paste, get_title,
\* erase_scrollback, focus_changed.
TerminalMutCall ==
    /\ pc = "live"
    /\ \E name \in TermMutOps, emuOk \in BOOLEAN :
         /\ name \notin FallibleTermOps => emuOk
         /\ lastOp' = Op(name, NoSize, TermCall(rendererHeld, emuOk))
    /\ UNCHANGED <<ptySize, termSize, rendererHeld, writerHeld, child, signalled,
                   pc, killCalls, dropLog>>
    /\ UNCHANGED searchVars

\* palette, is_mouse_grabbed, get_semantic_zones.
TerminalReadCall ==
    /\ pc = "live"
    /\ \E name \in TermReadOps, emuOk \in BOOLEAN :
         /\ name \notin FallibleTermOps => emuOk
         /\ lastOp' = Op(name, NoSize, TermCall(rendererHeld, emuOk))
    /\ UNCHANGED <<ptySize, termSize, rendererHeld, writerHeld, child, signalled,
                   pc, killCalls, dropLog>>
    /\ UNCHANGED searchVars

\* A reader that keeps the pty borrowed when the clone fails.
ReaderEffectLeaky(cloneOk) ==
    IF writerHeld
      THEN /\ lastOp' = Op("reader", NoSize, "panic")
           /\ UNCHANGED writerHeld
      ELSE /\ lastOp' = Op("reader", NoSize, IF cloneOk THEN "ok" ELSE "err")
           /\ writerHeld' = ~cloneOk

\* reader(): self.pty.borrow_mut().try_clone_reader().  The borrow is a
\* temporary of the statement: it is gone when the call returns, whether the
\* clone succeeded or not.  The clone itself is independent of the cell.
ReaderEffect(cloneOk) ==
    IF writerHeld
      THEN /\ lastOp' = Op("reader", NoSize, "panic")
           /\ UNCHANGED writerHeld
      ELSE /\ lastOp' = Op("reader", NoSize, IF cloneOk THEN "ok" ELSE "err")
           /\ UNCHANGED writerHeld

Reader ==
    /\ pc = "live"
    /\ \E cloneOk \in BOOLEAN : ReaderEffect(cloneOk)
    /\ UNCHANGED <<ptySize, termSize, rendererHeld, child, signalled, pc,
                   killCalls, dropLog>>
    /\ UNCHANGED searchVars

\* divine_current_working_dir (Linux):
\*   if let Some(pid) = self.pty.borrow().process_group_leader() {
\*     if let Ok(path) = read_link("/proc/{pid}/cwd") { return Url::parse(..).ok() } }
\*   None
\* pty.borrow() panics (BorrowError) while the RefMut of writer() is out.
\* linkOk stands for the link being readable and its path forming a URL.
DivineCurrentWorkingDir(leader, linkOk) ==
    IF writerHeld THEN "panic"
    ELSE IF leader = "pid" /\ linkOk THEN "dir" ELSE "none"

\* A lookup that runs the probe before looking at the emulator
\* (Option::or in place of Option::or_else).
CurrentWorkingDirEager(emu, leader, linkOk) ==
    IF rendererHeld THEN [res |-> "panic", probed |-> "no"]
    ELSE LET p == DivineCurrentWorkingDir(leader, linkOk) IN
         IF p = "panic" THEN [res |-> "panic", probed |-> p]
         ELSE IF emu = "dir" THEN [res |-> "emu", probed |-> p]
         ELSE [res |-> IF p = "dir" THEN "probe" ELSE "none", probed |-> p]

\* get_current_working_dir():
\*   self.terminal.borrow().get_current_dir().cloned()
\*       .or_else(|| self.divine_current_working_dir())
\* res is "emu" for the emulator's directory, "probe" for the probe's,
\* "none" for None; probed is the probe's answer, or "no" if it did not run.
CurrentWorkingDir(emu, leader, linkOk) ==
    IF rendererHeld THEN [res |-> "panic", probed |-> "no"]
    ELSE IF emu = "dir" THEN [res |-> "emu", probed |-> "no"]
    ELSE LET p == DivineCurrentWorkingDir(leader, linkOk) IN
         [res |-> IF p = "dir" THEN "probe" ELSE p, probed |-> p]

GetCurrentWorkingDir ==
    /\ pc = "live"
    /\ \E emu \in {"none", "dir"}, leader \in {"none", "pid"}, linkOk \in BOOLEAN :
         LET r == CurrentWorkingDir(emu, leader, linkOk) IN
         lastOp' = [Op("get_current_working_dir", NoSize, r.res) EXCEPT
                       !.emu = emu, !.leader = leader,
                       !.link = IF linkOk THEN "ok" ELSE "err",
                       !.probed = r.probed]
    /\ UNCHANGED <<ptySize, termSize, rendererHeld, writerHeld, child, signalled,
                   pc, killCalls, dropLog>>
    /\ UNCHANGED searchVars

\* search() seen from the pane: `let term = self.terminal.borrow()` panics
\* while renderer() holds the emulator; otherwise the scan runs with the
\* shared borrow and either returns Ok(results) or panics when a match
\* offset cannot be resolved ("unwrap").  Either way the borrow is gone when
\* the call is over.  The scan itself is SearchSpec.
Search ==
    /\ pc = "live"
    /\ \E resolved \in BOOLEAN :
         lastOp' = Op("search", NoSize,
                      IF rendererHeld THEN "panic"
                      ELSE IF resolved THEN "ok" ELSE "unwrap")
    /\ UNCHANGED <<ptySize, termSize, rendererHeld, writerHeld, child, signalled,
                   pc, killCalls, dropLog>>
    /\ UNCHANGED searchVars

Next ==
    \/ Renderer
    \/ ReleaseRenderer
    \/ Writer
    \/ ReleaseWriter
    \/ Resize
    \/ TerminalMutCall
    \/ TerminalReadCall
    \/ Reader
    \/ GetCurrentWorkingDir
    \/ Search
    \/ Kill
    \/ IsDead
    \/ ChildExit
    \/ DropKill
    \/ DropWait

Spec == Init /\ [][Next]_vars

\* The destructor runs to its end once started, and a child that received
\* the kill signal exits.
LiveSpec ==
    /\ Init
    /\ [][Next]_vars
    /\ WF_vars(DropWait)
    /\ WF_vars(ChildExit /\ signalled)

\* ------------------------------------------------------------------------
\* Strings: a Rust String is the UTF-8 encoding of a sequence of chars
\* ------------------------------------------------------------------------

\* Text is written as a sequence of chars (code points); the haystack and
\* every byte offset are in UTF-8 bytes.  The chars used are below U+0800.
Utf8Char(c) ==
    IF c < 128 THEN <<c>> ELSE <<192 + (c \div 64), 128 + (c % 64)>>

RECURSIVE Utf8(_)
Utf8(s) ==
    IF s = <<>> THEN <<>> ELSE Utf8Char(Head(s)) \o Utf8(Tail(s))

\* Offsets 0..len of a byte string that fall on a char boundary.
IsCharBoundary(h, off) ==
    \/ off = 0
    \/ off = Len(h)
    \/ (off > 0 /\ off < Len(h) /\ (h[off + 1] < 128 \/ h[off + 1] >= 192))

\* core::unicode::Cased and Case_Ignorable, on the chars used here:
\* ASCII and Greek letters are cased; the combining acute accent (U+0301)
\* and the full stop are case-ignorable.
Cased(c) ==
    \/ (c >= 65 /\ c <= 90) \/ (c >= 97 /\ c <= 122)
    \/ (c >= 913 /\ c <= 937) \/ (c >= 945 /\ c <= 969)

CaseIgnorable(c) == c = 769 \/ c = 46

\* case_ignorable_then_cased over the chars before position i, backwards,
\* and over the chars after position i, forwards.
CasedBefore(s, i) ==
    LET js == {j \in 1..(i - 1) : ~CaseIgnorable(s[j])}
    IN  js # {} /\ Cased(s[CHOOSE j \in js : \A k \in js : k <= j])

CasedAfter(s, i) ==
    LET js == {j \in (i + 1)..Len(s) : ~CaseIgnorable(s[j])}
    IN  js # {} /\ Cased(s[CHOOSE j \in js : \A k \in js : j <= k])

\* char lowercase mapping: A-Z and the Greek capitals move up by 32.
ToLowerChar(c) ==
    IF (c >= 65 /\ c <= 90) \/ (c >= 913 /\ c <= 937 /\ c # 930)
      THEN c + 32 ELSE c

\* str::to_lowercase: char by char, except capital sigma (U+03A3), which
\* becomes final sigma (U+03C2) at the end of a word and sigma (U+03C3)
\* elsewhere.
ToLowercase(s) ==
    [i \in 1..Len(s) |->
        IF s[i] = 931
          THEN (IF CasedBefore(s, i) /\ ~CasedAfter(s, i) THEN 962 ELSE 963)
          ELSE ToLowerChar(s[i])]

\* ------------------------------------------------------------------------
\* The screen
\* ------------------------------------------------------------------------

\* A screen is [lines, offset]: lines is the sequence of physical lines, a
\* line the sequence of its visible cells [str, wrapped], and offset the
\* number of lines scrolled off the top.  The cell at position i of a line
\* has grapheme index i - 1.
PhysToStableRowIndex(scr, idx) == idx + scr.offset

\* ------------------------------------------------------------------------
\* LocalPane::search
\* ------------------------------------------------------------------------

NoCoord == [byte_idx |-> -1, grapheme_idx |-> -1, stable_row |-> -1]

\* slice::binary_search_by(|ele| ele.byte_idx.cmp(&idx)) over cs[lo+1..hi]:
\* the index of the entry found, or the insertion point.
RECURSIVE BinarySearchBy(_, _, _, _)
BinarySearchBy(cs, idx, lo, hi) ==
    IF lo >= hi THEN [found |-> FALSE, at |-> lo]
    ELSE LET mid == lo + ((hi - lo) \div 2)
             key == cs[mid + 1].byte_idx
         IN  IF key = idx THEN [found |-> TRUE, at |-> mid]
             ELSE IF key < idx THEN BinarySearchBy(cs, idx, mid + 1, hi)
             ELSE BinarySearchBy(cs, idx, lo, mid)

\* haystack_idx_to_coord: Ok(i) and Err(i) both select index i; an index
\* past the end selects the last entry; no entry at all is an unwrap on None.
HaystackIdxToCoord(idx, cs) ==
    LET c == BinarySearchBy(cs, idx, 0, Len(cs)).at
    IN  IF c < Len(cs) THEN cs[c + 1]
        ELSE IF cs # <<>> THEN cs[Len(cs)]
        ELSE NoCoord

\* Whether needle occurs in h at byte offset off.
OccursAt(h, needle, off) ==
    /\ off + Len(needle) <= Len(h)
    /\ \A k \in 1..Len(needle) : h[off + k] = needle[k]

\* str::match_indices: the start offsets of the non-overlapping occurrences
\* of needle, left to right; the empty needle occurs at every char boundary.
RECURSIVE MatchIndices(_, _, _)
MatchIndices(h, needle, from) ==
    IF from > Len(h) THEN <<>>
    ELSE IF needle = <<>>
      THEN (IF IsCharBoundary(h, from) THEN <<from>> ELSE <<>>)
           \o MatchIndices(h, needle, from + 1)
    ELSE IF OccursAt(h, needle, from)
      THEN <<from>> \o MatchIndices(h, needle, from + Len(needle))
    ELSE MatchIndices(h, needle, from + 1)

\* The regex sources used here are made of literal chars, '.', '*' and '('.
\* An item is a literal char or '.', followed by any number of '*'.
RECURSIVE RegexAtoms(_)
RegexAtoms(src) ==
    IF src = <<>> THEN <<>>
    ELSE IF Head(src) = 42 THEN RegexAtoms(Tail(src))
    ELSE LET star == Len(src) >= 2 /\ src[2] = 42
         IN  <<[any |-> Head(src) = 46, chr |-> Head(src), star |-> star]>>
             \o RegexAtoms(Tail(src))

\* A regex constructor accepting any source: groups are not checked, a
\* repetition operator with nothing to repeat is dropped.
RegexNewLenient(src) == [ok |-> TRUE, atoms |-> RegexAtoms(src)]

\* regex::Regex::new: an unclosed group and a repetition operator with no
\* expression before it are syntax errors.
RegexNew(src) ==
    LET bad == \/ \E i \in 1..Len(src) : src[i] = 40
               \/ (src # <<>> /\ src[1] = 42)
    IN  [ok |-> ~bad, atoms |-> IF bad THEN <<>> ELSE RegexAtoms(src)]

\* One regex item against h at byte offset off: the offset after the char
\* it consumed, or -1.  '.' takes any char but the newline.
MatchAtom(a, h, off) ==
    IF off >= Len(h) THEN -1
    ELSE IF a.any
      THEN (IF h[off + 1] = 10 THEN -1
            ELSE IF h[off + 1] < 128 THEN off + 1 ELSE off + 2)
    ELSE IF OccursAt(h, Utf8Char(a.chr), off) THEN off + Len(Utf8Char(a.chr))
    ELSE -1

\* The end of the match of items k.. at offset off, or -1: repetitions are
\* greedy and give back on failure (leftmost-first).
RECURSIVE MatchFrom(_, _, _, _)
MatchFrom(atoms, k, h, off) ==
    IF k > Len(atoms) THEN off
    ELSE LET step == MatchAtom(atoms[k], h, off)
         IN  IF ~atoms[k].star
               THEN (IF step = -1 THEN -1 ELSE MatchFrom(atoms, k + 1, h, step))
             ELSE IF step = -1 THEN MatchFrom(atoms, k + 1, h, off)
             ELSE LET more == MatchFrom(atoms, k, h, step)
                  IN  IF more # -1 THEN more ELSE MatchFrom(atoms, k + 1, h, off)

\* Regex::find_at: the leftmost match starting at or after offset from.
RECURSIVE FindAt(_, _, _)
FindAt(atoms, h, from) ==
    IF from > Len(h) THEN [found |-> FALSE, s |-> 0, e |-> 0]
    ELSE LET e == IF IsCharBoundary(h, from) THEN MatchFrom(atoms, 1, h, from) ELSE -1
         IN  IF e # -1 THEN [found |-> TRUE, s |-> from, e |-> e]
             ELSE FindAt(atoms, h, from + 1)

\* The offset of the char boundary after off.
NextAfterEmpty(h, off) ==
    IF off < Len(h) /\ h[off + 1] >= 192 THEN off + 2 ELSE off + 1

\* Regex::find_iter: successive non-overlapping matches as <<start, end>>;
\* an empty match right after the previous match is skipped.
RECURSIVE FindIter(_, _, _, _)
FindIter(atoms, h, lastEnd, lastMatch) ==
    IF lastEnd > Len(h) THEN <<>>
    ELSE LET m == FindAt(atoms, h, lastEnd)
         IN  IF ~m.found THEN <<>>
             ELSE IF m.s = m.e
               THEN (IF m.e = lastMatch
                       THEN FindIter(atoms, h, NextAfterEmpty(h, m.e), lastMatch)
                       ELSE <<<<m.s, m.e>>>>
                            \o FindIter(atoms, h, NextAfterEmpty(h, m.e), m.e))
             ELSE <<<<m.s, m.e>>>> \o FindIter(atoms, h, m.e, m.e)

\* The <<start, end>> byte offsets collect_matches iterates over.
MatchSpans(pat, h) ==
    IF pat.kind = "re"
      THEN LET re == RegexNew(pat.text)
           IN  IF re.ok THEN FindIter(re.atoms, h, 0, -1) ELSE <<>>
      ELSE LET needle == Utf8(pat.text)
               idxs == MatchIndices(h, needle, 0)
           IN  [i \in 1..Len(idxs) |-> <<idxs[i], idxs[i] + Len(needle)>>]

\* results.push at the front instead of the back.
PushResultFront(res, r) == <<r>> \o res

\* results.push(SearchResult { .. })
PushResult(res, r) == Append(res, r)

RECURSIVE PushResults(_, _, _, _)
PushResults(res, spans, cs, k) ==
    IF k > Len(spans) THEN res
    ELSE LET s == HaystackIdxToCoord(spans[k][1], cs)
             e == HaystackIdxToCoord(spans[k][2], cs)
         IN  PushResults(PushResult(res, [start_x |-> s.grapheme_idx,
                                          start_y |-> s.stable_row,
                                          end_x |-> e.grapheme_idx,
                                          end_y |-> e.stable_row]),
                         spans, cs, k + 1)

\* collect_matches: nothing for an empty haystack; resolving a match against
\* an empty coordinate table panics.
CollectMatches(st, pat) ==
    LET called == [st EXCEPT !.collects = st.collects + 1] IN
    IF st.haystack = <<>> THEN called
    ELSE LET spans == MatchSpans(pat, st.haystack)
         IN  IF spans # <<>> /\ st.coords = <<>>
               THEN [called EXCEPT !.panicked = TRUE]
               ELSE [called EXCEPT
                       !.results = PushResults(st.results, spans, st.coords, 1)]

\* The inner loop of search: one Coord and the cell's text per visible cell.
RECURSIVE PushCells(_, _, _, _, _)
PushCells(st, pat, line, stable_row, k) ==
    IF k > Len(line) THEN st
    ELSE LET txt == IF pat.kind = "ci" THEN ToLowercase(line[k].str) ELSE line[k].str
         IN  PushCells([st EXCEPT
                          !.coords = Append(st.coords,
                                            [byte_idx |-> Len(st.haystack),
                                             grapheme_idx |-> k - 1,
                                             stable_row |-> stable_row]),
                          !.haystack = st.haystack \o Utf8(txt)],
                       pat, line, stable_row, k + 1)

\* A line scan that never sees the wrapped flag.
WrappedNever(line) == FALSE

\* wrapped after the inner loop: the flag of the last visible cell, false
\* for a line without visible cells.
Wrapped(line) == line # <<>> /\ line[Len(line)].wrapped

\* A line scan that collects literal matches at the end of a paragraph but
\* keeps the haystack and the Coords for the next one.
ScanLineKeepsHaystack(st, pat, scr, idx) ==
    LET line == scr.lines[idx + 1]
        pushed == PushCells(st, pat, line, PhysToStableRowIndex(scr, idx), 1)
    IN  IF Wrapped(line) THEN pushed
        ELSE IF pat.kind = "re"
          THEN [pushed EXCEPT !.haystack = Append(pushed.haystack, 10)]
        ELSE CollectMatches(pushed, pat)

\* A line scan that treats a regex like a literal: matches are collected
\* and the haystack is emptied at the end of every paragraph.
ScanLineRegexPerParagraph(st, pat, scr, idx) ==
    LET line == scr.lines[idx + 1]
        pushed == PushCells(st, pat, line, PhysToStableRowIndex(scr, idx), 1)
    IN  IF Wrapped(line) THEN pushed
        ELSE LET done == CollectMatches(pushed, pat)
             IN  [done EXCEPT !.haystack = <<>>, !.coords = <<>>]

\* One iteration of the outer loop of search, for physical line idx.
ScanLine(st, pat, scr, idx) ==
    LET line == scr.lines[idx + 1]
        pushed == PushCells(st, pat, line, PhysToStableRowIndex(scr, idx), 1)
    IN  IF Wrapped(line) THEN pushed
        ELSE IF pat.kind = "re"
          THEN [pushed EXCEPT !.haystack = Append(pushed.haystack, 10)]
        ELSE LET done == CollectMatches(pushed, pat)
             IN  [done EXCEPT !.haystack = <<>>, !.coords = <<>>]

\* The Pattern after the normalization at the top of search.
Normalize(pat) ==
    IF pat.kind = "ci" THEN [pat EXCEPT !.text = ToLowercase(pat.text)] ELSE pat

EmptyScan ==
    [haystack |-> <<>>, coords |-> <<>>, results |-> <<>>, panicked |-> FALSE,
     collects |-> 0]

\* search as a function of its inputs: all lines, then the final
\* collect_matches.  A panic ends the scan.
RECURSIVE ScanFrom(_, _, _, _)
ScanFrom(st, pat, scr, idx) ==
    IF st.panicked THEN st
    ELSE IF idx >= Len(scr.lines) THEN CollectMatches(st, pat)
    ELSE ScanFrom(ScanLine(st, pat, scr, idx), pat, scr, idx + 1)

SearchFn(pat, scr) == ScanFrom(EmptyScan, Normalize(pat), scr, 0)

SearchState == [haystack |-> haystack, coords |-> coords, results |-> results,
                panicked |-> FALSE, collects |-> collects]

\* search, up to the loop: borrow the terminal, normalize the pattern.
SearchBegin ==
    /\ spc = "start"
    /\ pattern' = Normalize(pattern)
    /\ spc' = "scan"
    /\ UNCHANGED <<screen, row, haystack, coords, results, collects>>
    /\ UNCHANGED paneVars

\* search, one iteration of the loop over screen.lines.
SearchScanLine ==
    /\ spc = "scan"
    /\ row < Len(screen.lines)
    /\ LET st == ScanLine(SearchState, pattern, screen, row)
       IN  /\ haystack' = st.haystack
           /\ coords' = st.coords
           /\ results' = st.results
           /\ collects' = st.collects
           /\ spc' = IF st.panicked THEN "panicked" ELSE "scan"
    /\ row' = row + 1
    /\ UNCHANGED <<screen, pattern>>
    /\ UNCHANGED paneVars

\* search, after the loop: the final collect_matches and Ok(results).
SearchFinish ==
    /\ spc = "scan"
    /\ row = Len(screen.lines)
    /\ LET st == CollectMatches(SearchState, pattern)
       IN  /\ results' = st.results
           /\ collects' = st.collects
           /\ spc' = IF st.panicked THEN "panicked" ELSE "done"
    /\ UNCHANGED <<screen, pattern, row, haystack, coords>>
    /\ UNCHANGED paneVars

SearchNext ==
    \/ SearchBegin
    \/ SearchScanLine
    \/ SearchFinish

\* ------------------------------------------------------------------------
\* Inputs of search
\* ------------------------------------------------------------------------

\* Screens have at most MaxRows lines.
MaxRows == 3

\* A line of cells holding the given texts; the emulator sets the wrapped
\* flag on the last cell of a line that continues on the next one.
MkLine(texts, w) ==
    [i \in 1..Len(texts) |-> [str |-> texts[i], wrapped |-> (w /\ i = Len(texts))]]

\* Line contents: no cell, "a", "aa", "Aa", and "a" with a combining acute
\* accent (one cell of three bytes) followed by "a".
RowTexts ==
    { <<>>,
      << <<97>> >>,
      << <<97>>, <<97>> >>,
      << <<65>>, <<97>> >>,
      << <<97, 769>>, <<97>> >> }

Lines == {MkLine(t, w) : t \in RowTexts, w \in BOOLEAN}

\* Two lines have scrolled off the top of the bounded screens.
BoundedScreens ==
    {[lines |-> ls, offset |-> 2] : ls \in UNION {[1..n -> Lines] : n \in 0..MaxRows}}

Pat(kind, text) == [kind |-> kind, text |-> text, given |-> text]

\* Literal texts: "", "a", "A", "aa", "aaa", and the accent followed by "a".
LiteralTexts == { <<>>, <<97>>, <<65>>, <<97, 97>>, <<97, 97, 97>>, <<769, 97>> }

\* Regex sources: a  a*  .  .*  \n  a\na  and, with a syntax error,
\* (  a(  *a
RegexSources ==
    { <<97>>, <<97, 42>>, <<46>>, <<46, 42>>, <<10>>, <<97, 10, 97>>,
      <<40>>, <<97, 40>>, <<42, 97>> }

BoundedPatterns ==
    {Pat(k, t) : k \in {"cs", "ci"}, t \in LiteralTexts}
        \cup {Pat("re", t) : t \in RegexSources}

\* "xxABCyy" on one line.
ScreenXxABCyy ==
    [lines |-> << MkLine(<< <<120>>, <<120>>, <<65>>, <<66>>, <<67>>, <<121>>, <<121>> >>, FALSE) >>,
     offset |-> 0]

\* "hel", wrapped, then "lo".
ScreenHelLo ==
    [lines |-> << MkLine(<< <<104>>, <<101>>, <<108>> >>, TRUE),
                  MkLine(<< <<108>>, <<111>> >>, FALSE) >>,
     offset |-> 2]

\* The Greek capitals alpha and sigma on one line; the same in small letters.
ScreenGreek ==
    [lines |-> << MkLine(<< <<913>>, <<931>> >>, FALSE),
                  MkLine(<< <<945>>, <<963>> >>, FALSE) >>,
     offset |-> 0]

ExampleInputs ==
    ({ScreenXxABCyy} \X {Pat("ci", <<97, 98, 99>>), Pat("ci", <<65, 98, 67>>),
                         Pat("cs", <<65, 66, 67>>), Pat("re", <<66, 46>>)})
    \cup ({ScreenHelLo} \X {Pat("cs", <<104, 101, 108, 108, 111>>),
                            Pat("ci", <<72, 69, 76, 76, 79>>),
                            Pat("re", <<108, 42, 111>>)})
    \cup ({ScreenGreek} \X {Pat("ci", <<945, 963>>), Pat("ci", <<913, 931>>),
                            Pat("cs", <<913, 931>>)})

\* A search about to start on a freshly built pane.
SearchInit ==
    /\ PaneInit
    /\ \/ (screen \in BoundedScreens /\ pattern \in BoundedPatterns)
       \/ (\E ex \in ExampleInputs : screen = ex[1] /\ pattern = ex[2])
    /\ spc = "start"
    /\ row = 0
    /\ haystack = <<>>
    /\ coords = <<>>
    /\ results = <<>>
    /\ collects = 0

SearchSpec == SearchInit /\ [][SearchNext]_vars

\* ------------------------------------------------------------------------
\* Properties of the pane (Spec, LiveSpec)
\* ------------------------------------------------------------------------

\* C1: resize is a two-phase commit. The emulator geometry changes only in a
\* step in which the pty took the same geometry and the call returned Ok; a
\* resize rejected by the pty returns an error and leaves the emulator and
\* the pty geometry as they were, borrows nothing and leaves the pane live.
C1_ResizeTwoPhase ==
    [][ /\ (termSize' # termSize =>
              /\ ptySize' = termSize'
              /\ lastOp' = Op("resize", termSize', "ok"))
        /\ ((lastOp'.op = "resize" /\ lastOp'.res = "err") =>
              /\ termSize' = termSize
              /\ ptySize' = ptySize
              /\ rendererHeld' = rendererHeld
              /\ writerHeld' = writerHeld
              /\ pc' = "live") ]_vars

\* C1 witness: a resize to another geometry was rejected by the pty.
C1_Witness ==
    /\ lastOp.op = "resize"
    /\ lastOp.res = "err"
    /\ lastOp.arg # termSize
    /\ pc = "live"

\* C2 (as claimed): between pane operations the pty geometry equals the
\* emulator geometry, whatever way earlier resize calls ended.
C2_GeometryInSync ==
    pc = "live" => ptySize = termSize

\* C4: the destructor calls kill and then wait on the child, each exactly
\* once and in that order, whatever happened before and whether or not kill
\* fails; the destructor returns normally.
C4_DropKillThenWait ==
    /\ pc = "live" => dropLog = <<>>
    /\ pc = "drop_wait" =>
         /\ Len(dropLog) = 1
         /\ dropLog[1].call = "kill"
    /\ pc = "dropped" =>
         /\ Len(dropLog) = 2
         /\ dropLog[1].call = "kill"
         /\ dropLog[2].call = "wait"
         /\ lastOp = Op("drop", NoSize, "ok")

\* C4 witness: a pane on which kill() had been called was dropped, the
\* destructor's kill failed, and the wait still ran.
C4_Witness ==
    /\ pc = "dropped"
    /\ killCalls > 0
    /\ ~dropLog[1].ok

LineContinues(line) == Len(line) > 0 /\ line[Len(line)].wrapped

\* The logical paragraph of physical line i (1-based): the number of lines
\* before it that do not continue.
ParaOf(scr, i) == Cardinality({j \in 1..(i - 1) : ~LineContinues(scr.lines[j])})

\* The text a cell contributes for a pattern kind, in bytes.
CellBytes(cell, kind) == Utf8(IF kind = "ci" THEN ToLowercase(cell.str) ELSE cell.str)

\* The cells of the screen in scan order, each with its coordinate, its
\* paragraph and the byte offset of its text in the paragraph's joined text.
RECURSIVE FlatCells(_, _, _, _, _)
FlatCells(scr, kind, i, k, off) ==
    IF i > Len(scr.lines) THEN <<>>
    ELSE IF k > Len(scr.lines[i])
      THEN FlatCells(scr, kind, i + 1, 1,
                     IF LineContinues(scr.lines[i]) THEN off ELSE 0)
    ELSE LET b == CellBytes(scr.lines[i][k], kind)
         IN  <<[x |-> k - 1, y |-> (i - 1) + scr.offset, line |-> i,
                para |-> ParaOf(scr, i), off |-> off, len |-> Len(b),
                str |-> scr.lines[i][k].str, bytes |-> b]>>
             \o FlatCells(scr, kind, i, k + 1, off + Len(b))

Cells(scr, kind) == FlatCells(scr, kind, 1, 1, 0)

\* (y1, x1) is before or at (y2, x2) in scan order.
PosLe(x1, y1, x2, y2) == y1 < y2 \/ (y1 = y2 /\ x1 <= x2)

\* The joined text of paragraph p, in bytes.
RECURSIVE ParaBytesFrom(_, _, _)
ParaBytesFrom(fc, p, i) ==
    IF i > Len(fc) THEN <<>>
    ELSE (IF fc[i].para = p THEN fc[i].bytes ELSE <<>>) \o ParaBytesFrom(fc, p, i + 1)

\* The index in fc of the cell of paragraph p whose text holds byte offset o.
CellAt(fc, p, o) ==
    CHOOSE i \in 1..Len(fc) : fc[i].para = p /\ fc[i].off <= o /\ o < fc[i].off + fc[i].len

\* The chars of the cells from a result's start to its end, the end cell
\* included or excluded.
RECURSIVE SpanText(_, _, _, _)
SpanText(fc, r, inclusive, i) ==
    IF i > Len(fc) THEN <<>>
    ELSE (IF /\ PosLe(r.start_x, r.start_y, fc[i].x, fc[i].y)
             /\ PosLe(fc[i].x, fc[i].y, r.end_x, r.end_y)
             /\ (inclusive \/ <<fc[i].x, fc[i].y>> # <<r.end_x, r.end_y>>)
            THEN fc[i].str ELSE <<>>)
         \o SpanText(fc, r, inclusive, i + 1)

\* C3 (as claimed): every byte offset at or after the first entry resolves
\* to the last entry whose byte offset is not greater: the entry itself when
\* equal, the preceding entry when strictly between two, the final entry
\* when at or beyond it.
C3_ResolvesToPreceding ==
    coords # <<>> =>
      \A off \in 0..Len(haystack) :
        (IsCharBoundary(haystack, off) /\ off >= coords[1].byte_idx) =>
          LET at == CHOOSE i \in 1..Len(coords) :
                      /\ coords[i].byte_idx <= off
                      /\ \A j \in 1..Len(coords) :
                           coords[j].byte_idx <= off => j <= i
          IN  HaystackIdxToCoord(off, coords) = coords[at]

\* C6 (as claimed): for a non-empty case-sensitive literal P over a screen
\* whose cells hold one char each, the leftmost occurrence of P in every
\* paragraph is reported with its first cell as start, and under one reading
\* of the end coordinate (inclusive or exclusive), the same for all results,
\* every result's span decodes to P.
C6_SpanDecodesToPattern ==
    (/\ spc = "done"
     /\ pattern.kind = "cs"
     /\ pattern.given # <<>>
     /\ \A i \in 1..Len(screen.lines) : \A k \in 1..Len(screen.lines[i]) :
           Len(screen.lines[i][k].str) = 1)
    => LET fc == Cells(screen, "cs")
           n == Len(pattern.given)
           occurs(i) == /\ i + n - 1 <= Len(fc)
                        /\ \A k \in 1..n : /\ fc[i + k - 1].para = fc[i].para
                                           /\ fc[i + k - 1].str = <<pattern.given[k]>>
       IN  /\ \A i \in 1..Len(fc) :
                (occurs(i) /\ \A j \in 1..(i - 1) : ~(occurs(j) /\ fc[j].para = fc[i].para))
                => \E m \in 1..Len(results) :
                     results[m].start_x = fc[i].x /\ results[m].start_y = fc[i].y
           /\ \E inclusive \in BOOLEAN :
                \A m \in 1..Len(results) :
                  SpanText(fc, results[m], inclusive, 1) = pattern.given

\* C7: a line whose last cell is wrapped is joined with the next line.  For
\* "hel" wrapped and "lo", the pattern "hello" gives one match from grapheme
\* 0 of the first line to the second line; and for every literal pattern,
\* every occurrence that the non-overlapping scan of a paragraph's joined
\* text selects and that starts on one line and ends on a later one has a
\* result, starting within the occurrence (at its first cell when the
\* occurrence starts with that cell) and ending on or after its last line.
C7_WrappedRowsJoin ==
    /\ (spc = "done" /\ screen = ScreenHelLo
          /\ pattern.kind = "cs" /\ pattern.given = <<104, 101, 108, 108, 111>>)
       => results = <<[start_x |-> 0, start_y |-> 2, end_x |-> 1, end_y |-> 3]>>
    /\ (spc = "done" /\ pattern.kind \in {"cs", "ci"} /\ pattern.given # <<>>)
       => LET fc == Cells(screen, pattern.kind)
              needle == Utf8(pattern.text)
          IN  \A p \in {fc[i].para : i \in 1..Len(fc)} :
                LET occ == MatchIndices(ParaBytesFrom(fc, p, 1), needle, 0)
                IN  \A k \in 1..Len(occ) :
                      LET f == CellAt(fc, p, occ[k])
                          l == CellAt(fc, p, occ[k] + Len(needle) - 1)
                      IN  fc[f].line < fc[l].line =>
                            \E m \in 1..Len(results) :
                              /\ PosLe(fc[f].x, fc[f].y, results[m].start_x, results[m].start_y)
                              /\ PosLe(results[m].start_x, results[m].start_y, fc[l].x, fc[l].y)
                              /\ (occ[k] = fc[f].off =>
                                    /\ results[m].start_x = fc[f].x
                                    /\ results[m].start_y = fc[f].y)
                              /\ results[m].end_y >= fc[l].y

\* C7 witness: "aaa" was found across a chain of two wrapped lines and the
\* line that ends the paragraph.
C7_Witness ==
    /\ spc = "done"
    /\ pattern.kind = "cs"
    /\ pattern.given = <<97, 97, 97>>
    /\ Len(screen.lines) = 3
    /\ LineContinues(screen.lines[1])
    /\ LineContinues(screen.lines[2])
    /\ \E m \in 1..Len(results) :
         /\ results[m].start_y = screen.offset
         /\ results[m].end_y = screen.offset + 2

\* C8: results are in scan order: each result's start (stable row, grapheme
\* index) is lexicographically at or before the next result's start.
C8_ScanOrder ==
    \A m \in 1..(Len(results) - 1) :
      PosLe(results[m].start_x, results[m].start_y,
            results[m + 1].start_x, results[m + 1].start_y)

\* C8 witness: a regex search returned matches on two different lines.
C8_Witness ==
    /\ spc = "done"
    /\ pattern.kind = "re"
    /\ Len(results) >= 2
    /\ results[1].start_y < results[Len(results)].start_y

\* char uppercase mapping, on the chars used here: a-z and the Greek small
\* letters move down by 32, final sigma becomes capital sigma.
ToUppercase(s) ==
    [i \in 1..Len(s) |->
        IF s[i] = 962 THEN 931
        ELSE IF (s[i] >= 97 /\ s[i] <= 122) \/ (s[i] >= 945 /\ s[i] <= 969)
          THEN s[i] - 32 ELSE s[i]]

\* The screen with every cell's text lowercased, and uppercased.
LowerScreen(scr) ==
    [scr EXCEPT !.lines = [i \in 1..Len(scr.lines) |->
        [k \in 1..Len(scr.lines[i]) |->
            [scr.lines[i][k] EXCEPT !.str = ToLowercase(scr.lines[i][k].str)]]]]

UpperScreen(scr) ==
    [scr EXCEPT !.lines = [i \in 1..Len(scr.lines) |->
        [k \in 1..Len(scr.lines[i]) |->
            [scr.lines[i][k] EXCEPT !.str = ToUppercase(scr.lines[i][k].str)]]]]

\* C9 (as claimed): a case-insensitive search returns what the case-sensitive
\* search of the lowercased pattern returns over the lowercased screen; "abc"
\* over "xxABCyy" gives one match, from grapheme 2, over the "ABC" cells; and
\* the results are the same for the pattern and the cells in any case.
C9_CaseIndependent ==
    (spc = "done" /\ pattern.kind = "ci") =>
      /\ results = SearchFn(Pat("cs", ToLowercase(pattern.given)), LowerScreen(screen)).results
      /\ (screen = ScreenXxABCyy /\ ToLowercase(pattern.given) = <<97, 98, 99>>)
           => results = <<[start_x |-> 2, start_y |-> 0, end_x |-> 5, end_y |-> 0]>>
      /\ \A t \in {ToLowercase(pattern.given), ToUppercase(pattern.given)} :
           \A scr \in {screen, LowerScreen(screen), UpperScreen(screen)} :
             SearchFn(Pat("ci", t), scr).results = results

\* Regex sources with a syntax error: an unclosed group, a repetition
\* operator with nothing to repeat.
C10_InvalidSources == { <<40>>, <<97, 40>>, <<42, 97>> }

\* C10: a regex search with a syntax error in the pattern never panics and
\* returns Ok with no result.
C10_InvalidRegexEmpty ==
    (pattern.kind = "re" /\ pattern.given \in C10_InvalidSources) =>
      /\ spc # "panicked"
      /\ results = <<>>
      /\ (spc = "scan" /\ row = Len(screen.lines)) => ENABLED SearchFinish

\* C10 witness: the search for "*a" returned over a screen showing "a".
C10_Witness ==
    /\ spc = "done"
    /\ pattern.kind = "re"
    /\ pattern.given = <<42, 97>>
    /\ \E i \in 1..Len(screen.lines) : \E k \in 1..Len(screen.lines[i]) :
         screen.lines[i][k].str = <<97>>
    /\ results = <<>>

\* ------------------------------------------------------------------------
\* Properties of the pane, continued (Spec)
\* ------------------------------------------------------------------------

\* A step that is a call on the pane (or a stutter), not the child exiting
\* on its own.
PaneCall == ~(child = "running" /\ child' = "exited")

\* C11: is_dead is sticky.  A child that has exited never runs again, and
\* every is_dead call made once the child has exited returns true.
C11_IsDeadSticky ==
    [][ /\ (child # "running" => child' # "running")
        /\ ((child # "running" /\ lastOp'.op = "is_dead") => lastOp'.res = "true") ]_vars

\* C11 witness: is_dead returned true again after an earlier call had
\* already collected the exit status.
C11_Witness ==
    /\ lastOp.op = "is_dead"
    /\ lastOp.res = "true"
    /\ lastOp.poll = "some"
    /\ child = "reaped"
    /\ killCalls = 0

\* C12: is_dead returns false exactly when the poll reports a running
\* child, and true for an exit status and for a failed poll; it can always
\* be called on a live pane (it does not wait for the child), and it leaves
\* the emulator, the pty and the borrows as they were.
C12_IsDeadFailSafe ==
    /\ [](lastOp.op = "is_dead" =>
            /\ lastOp.poll \in {"none", "some", "err"}
            /\ (lastOp.res = "false" <=> lastOp.poll = "none")
            /\ (lastOp.res = "true" <=> lastOp.poll \in {"some", "err"}))
    /\ [](pc = "live" => ENABLED IsDead)
    /\ [][ (PaneCall /\ lastOp'.op = "is_dead") =>
             /\ (lastOp'.poll = "none" => child = "running")
             /\ termSize' = termSize
             /\ ptySize' = ptySize
             /\ rendererHeld' = rendererHeld
             /\ writerHeld' = writerHeld ]_vars

\* C12 witness: the poll failed while the child was running, and is_dead
\* reported the pane dead.
C12_Witness ==
    /\ lastOp.op = "is_dead"
    /\ lastOp.poll = "err"
    /\ lastOp.res = "true"
    /\ child = "running"

\* The calls that need the emulator, as the trait implementation lists them.
C13_EmulatorCalls ==
    {"renderer", "set_clipboard", "advance_bytes", "mouse_event", "key_down",
     "send_paste", "get_title", "erase_scrollback", "focus_changed", "palette",
     "is_mouse_grabbed", "get_semantic_zones", "get_current_working_dir",
     "search"}

\* The calls that need the pty before anything else.
C13_PtyCalls == {"writer", "reader", "resize"}

\* C13: exclusive access.  While the handle of renderer() is out, every call
\* that needs the emulator panics and leaves the emulator's geometry and the
\* handle as they were; a resize gets no further than its pty phase.  While
\* the handle of writer() is out, every call that needs the pty panics and
\* leaves the pty's geometry and the handle as they were.
C13_ExclusiveAccess ==
    [][ PaneCall =>
          /\ (rendererHeld /\ lastOp'.op \in C13_EmulatorCalls) =>
                (lastOp'.res = "panic" /\ termSize' = termSize /\ rendererHeld')
          /\ (rendererHeld /\ lastOp'.op = "resize") =>
                (lastOp'.res \in {"panic", "err"} /\ termSize' = termSize
                 /\ rendererHeld')
          /\ (writerHeld /\ lastOp'.op \in C13_PtyCalls) =>
                (lastOp'.res = "panic" /\ ptySize' = ptySize
                 /\ termSize' = termSize /\ writerHeld')
          /\ (writerHeld /\ lastOp'.op = "get_current_working_dir"
                /\ lastOp'.probed # "no") => lastOp'.res = "panic" ]_vars

\* C13 witness: a key press was dispatched while the handle of renderer()
\* was out, and the call panicked.
C13_Witness ==
    /\ rendererHeld
    /\ lastOp.op = "key_down"
    /\ lastOp.res = "panic"

C15_CwdFallback ==
    (lastOp.op = "get_current_working_dir" /\ lastOp.res # "panic") =>
        /\ (lastOp.emu = "dir" => (lastOp.res = "emu" /\ lastOp.probed = "no"))
        /\ (lastOp.emu = "none" =>
              /\ lastOp.probed \in {"dir", "none"}
              /\ (lastOp.probed = "dir" => lastOp.res = "probe")
              /\ (lastOp.probed = "none" => lastOp.res = "none")
              /\ (lastOp.probed = "dir" <=>
                    (lastOp.leader = "pid" /\ lastOp.link = "ok")))

\* C15 witness: the emulator reported a directory while the handle of
\* writer() was out (a state in which the probe could not have run), and
\* the call returned the emulator's directory.
C15_Witness ==
    /\ lastOp.op = "get_current_working_dir"
    /\ lastOp.emu = "dir"
    /\ lastOp.res = "emu"
    /\ lastOp.leader = "pid"
    /\ lastOp.link = "ok"
    /\ writerHeld

\* C16: the probe never raises: whenever it runs on a pane whose emulator
\* reports no directory and whose pty has no process group leader, it finds
\* nothing and get_current_working_dir returns None.
C16_ProbeNeverRaises ==
    (/\ lastOp.op = "get_current_working_dir"
     /\ lastOp.emu = "none"
     /\ lastOp.leader = "none"
     /\ lastOp.probed # "no") =>
        (lastOp.probed = "none" /\ lastOp.res = "none")

\* The calls that hand a borrow to the caller, and the caller giving it back.
C20_HandleCalls == {"renderer", "writer", "release_renderer", "release_writer"}

\* C20: every call other than renderer() and writer() leaves what is
\* borrowed as it found it, however it ends; and a call made while neither
\* handle is out never panics on a borrow.
C20_BorrowsReleased ==
    [][ PaneCall =>
          /\ lastOp'.op \notin C20_HandleCalls =>
                (rendererHeld' = rendererHeld /\ writerHeld' = writerHeld)
          /\ (~rendererHeld /\ ~writerHeld) => lastOp'.res # "panic" ]_vars

\* C20 witness: reader() failed to clone the pty's reader and nothing is
\* left borrowed.
C20_Witness ==
    /\ lastOp.op = "reader"
    /\ lastOp.res = "err"
    /\ ~rendererHeld
    /\ ~writerHeld

\* ------------------------------------------------------------------------
\* Properties of search, continued (SearchSpec)
\* ------------------------------------------------------------------------

\* The number of lines among the first n that do not continue.
ParagraphEnds(scr, n) == Cardinality({i \in 1..n : ~LineContinues(scr.lines[i])})

\* The paragraphs that hold at least one cell.
ParasOf(fc) == {fc[i].para : i \in 1..Len(fc)}

\* The number of matches of a literal needle found paragraph by paragraph.
RECURSIVE MatchesWithinParagraphs(_, _, _)
MatchesWithinParagraphs(fc, needle, ps) ==
    IF ps = {} THEN 0
    ELSE LET p == CHOOSE q \in ps : TRUE
         IN  Len(MatchIndices(ParaBytesFrom(fc, p, 1), needle, 0))
               + MatchesWithinParagraphs(fc, needle, ps \ {p})

\* C17: for a literal pattern, matches are collected at every line that
\* does not end wrapped, after which the haystack and the Coords are empty;
\* every result starts and ends in one paragraph, and the results are the
\* matches found inside the paragraphs, one by one: text joined across a
\* paragraph boundary adds none.
C17_LiteralWithinParagraph ==
    (pattern.kind \in {"cs", "ci"} /\ spc \in {"scan", "done"}) =>
        /\ spc = "scan" => collects = ParagraphEnds(screen, row)
        /\ spc = "done" => collects = ParagraphEnds(screen, row) + 1
        /\ (row > 0 /\ ~LineContinues(screen.lines[row])) =>
              (haystack = <<>> /\ coords = <<>>)
        /\ \A i \in 1..Len(results) :
              ParaOf(screen, results[i].start_y - screen.offset + 1)
                = ParaOf(screen, results[i].end_y - screen.offset + 1)
        /\ spc = "done" =>
              Len(results) = LET fc == Cells(screen, pattern.kind)
                             IN  MatchesWithinParagraphs(fc, Utf8(pattern.text),
                                                         ParasOf(fc))

\* C17 witness: "a" on a line that is not wrapped, "a" on the next line,
\* searched for "aa": the search is over and has found nothing.
C17_Witness ==
    /\ spc = "done"
    /\ pattern.kind = "cs"
    /\ pattern.text = <<97, 97>>
    /\ Len(screen.lines) = 2
    /\ screen.lines[1] = MkLine(<< <<97>> >>, FALSE)
    /\ screen.lines[2] = MkLine(<< <<97>> >>, FALSE)
    /\ results = <<>>
    /\ collects = 3

\* The bytes of the cells of a line.
RECURSIVE LineBytes(_, _)
LineBytes(line, k) ==
    IF k > Len(line) THEN <<>> ELSE Utf8(line[k].str) \o LineBytes(line, k + 1)

\* The text of the first n lines with a newline after each line that does
\* not continue.
RECURSIVE JoinedLines(_, _)
JoinedLines(scr, n) ==
    IF n = 0 THEN <<>>
    ELSE JoinedLines(scr, n - 1) \o LineBytes(scr.lines[n], 1)
           \o (IF LineContinues(scr.lines[n]) THEN <<>> ELSE <<10>>)

\* The number of cells on the first n lines.
RECURSIVE CellCount(_, _)
CellCount(scr, n) ==
    IF n = 0 THEN 0 ELSE CellCount(scr, n - 1) + Len(scr.lines[n])

\* C18: for a regex the whole screen is one haystack: after n lines it is
\* their text with one newline after each line that does not end wrapped
\* and none after one that does; there is one Coord per cell and none for a
\* newline; nothing is collected during the scan, and collect_matches runs
\* exactly once, after the last line.
C18_RegexOneHaystack ==
    pattern.kind = "re" =>
        /\ spc \in {"scan", "done", "panicked"} =>
              /\ haystack = JoinedLines(screen, row)
              /\ Len(coords) = CellCount(screen, row)
              /\ \A i \in 1..Len(coords) :
                    /\ coords[i].byte_idx < Len(haystack)
                    /\ haystack[coords[i].byte_idx + 1] # 10
        /\ spc = "scan" => (collects = 0 /\ results = <<>>)
        /\ spc \in {"done", "panicked"} =>
              (collects = 1 /\ row = Len(screen.lines))

\* C18 witness: the regex a\na has matched "a", the end of a line that is
\* not wrapped, and "a" on the next line.
C18_Witness ==
    /\ spc = "done"
    /\ pattern.kind = "re"
    /\ pattern.text = <<97, 10, 97>>
    /\ Len(screen.lines) = 2
    /\ ~LineContinues(screen.lines[1])
    /\ \E i \in 1..Len(results) :
          /\ results[i].start_y = screen.offset
          /\ results[i].end_y = screen.offset + 1

\* C19: search never panics while it resolves a match offset: the Coords
\* are not empty whenever collect_matches has a match to resolve.
C19_NeverAborts == spc # "panicked"

====
